---- MODULE Spec2Model ----
(***************************************************************************)
(* Task orchestration and session state of WelearnBrainBurst (src/app.py). *)
(*                                                                         *)
(* The Flask development server serves every request on its own thread,    *)
(* so the handlers api_login, start_task and stop_tasks run concurrently   *)
(* with each other and with the worker threads they spawn.  Each handler   *)
(* and each worker is a process whose position (pc) is part of the state;  *)
(* one step of a process is one access to the shared GlobalState object    *)
(* together with the thread-local computation that follows it.             *)
(***************************************************************************)
EXTENDS Integers, Sequences, FiniteSets, TLC

(* ------------------------------ bounds -------------------------------- *)
\* number of request threads of the server that are modelled
MaxHandlers == 2
\* number of worker Thread objects that may be constructed in one run
MaxThreads == 2
\* number of requests the server accepts in one run
MaxCalls == 3
\* iterations of BrainBurstThread's progress loop (range(1, 101) in the
\* source; the loop ceiling is scaled down to keep the state space finite)
BBSteps == 2
\* largest duration (in loop iterations) a start request may ask for
MaxDur == 1
\* longest cookie text of the login requests of the restart runs
MaxLen == 3

Handlers == 1..MaxHandlers
Tids == 1..MaxThreads

(* ----------------------------- strings -------------------------------- *)
\* error texts of the JSON responses
ErrAlreadyRunning == "already_running"
ErrUnknownType == "unknown_task_type"
ErrCookieInvalid == "cookie_validation_failed"
ErrPleaseLogin == "please_login_first"
ErrException == "exception_text"
NoError == ""

Resp(op, ok, err) == [op |-> op, success |-> ok, error |-> err]
NoResp == Resp("none", FALSE, NoError)

(* --------------------------- cookie texts ----------------------------- *)
\* A cookie text is a sequence of one-character strings.
RECURSIVE IndexOf(_, _, _)
IndexOf(s, c, k) ==
  IF k > Len(s) THEN 0
  ELSE IF s[k] = c THEN k
  ELSE IndexOf(s, c, k + 1)

\* str.split(sep): the pieces between the separators, empty pieces kept
RECURSIVE SplitOn(_, _)
SplitOn(s, c) ==
  LET k == IndexOf(s, c, 1)
  IN  IF k = 0 THEN << s >>
      ELSE << SubSeq(s, 1, k - 1) >> \o SplitOn(SubSeq(s, k + 1, Len(s)), c)

\* str.split("=", 1): at most one split, at the first "="
SplitEq1(seg) ==
  LET k == IndexOf(seg, "=", 1)
  IN  IF k = 0 THEN << seg >>
      ELSE << SubSeq(seg, 1, k - 1), SubSeq(seg, k + 1, Len(seg)) >>

MapSplitEq1(segs) == [n \in 1..Len(segs) |-> SplitEq1(segs[n])]

NonEmpty(seg) == seg # << >>

\* dict(items) raises ValueError when an item is not a pair
DictRaises(items) == \E n \in 1..Len(items) : Len(items[n]) # 2

\* dict(items): a set of <<key, value>> pairs, a later item replacing an
\* earlier one with the same key
DictOf(items) ==
  { << items[n][1], items[n][2] >> : n \in
      { m \in 1..Len(items) :
          \A j \in (m + 1)..Len(items) : items[j][1] # items[m][1] } }

\* api_login: the items handed to dict(); filter(None, ...) drops the empty
\* pieces before they are split
LoginItems(text) == MapSplitEq1(SelectSeq(SplitOn(text, ";"), NonEmpty))

\* __main__: the items handed to dict(); no filter
StartupItems(text) == MapSplitEq1(SplitOn(text, ";"))

\* cookie texts the login requests of the model carry
LoginTexts ==
  { << "a" >>,
    << "a", "=", "b" >> }

\* every text of at most MaxLen characters over a name character, "=" and ";"
CookieChars == {"a", "=", ";"}
AllTexts == UNION { [1..k -> CookieChars] : k \in 0..MaxLen }

NoCookies == [some |-> FALSE, val |-> {}]
SomeCookies(d) == [some |-> TRUE, val |-> d]
NoFile == [some |-> FALSE, text |-> << >>]
FileWith(text) == [some |-> TRUE, text |-> text]

(* ------------------------------ workers ------------------------------- *)
KindBB == "brain_burst"
KindAFK == "away_from_keyboard"
RunningStatuses == {KindBB, KindAFK}
TerminalStatuses == {"completed", "error"}

\* the "params" value of a start request, as json decodes it: a number or
\* an array of two numbers (json never yields a tuple)
IntParam(n) == [tag |-> "int", a |-> n, b |-> 0]
ListParam(lo, hi) == [tag |-> "list", a |-> lo, b |-> hi]
TupleParam(lo, hi) == [tag |-> "tuple", a |-> lo, b |-> hi]
NoParam == IntParam(0)
JsonParams == { IntParam(MaxDur), ListParam(1, MaxDur) }

\* the values "total" may take in AwayFromKeyboardThread.run; the empty set
\* when computing it or range(total) raises
TotalChoices(dur) ==
  IF dur.tag = "tuple"
  THEN (IF dur.a <= dur.b THEN dur.a..dur.b ELSE {})
  ELSE IF dur.tag = "int" THEN {dur.a}
  ELSE {}

NoThread == [kind |-> "none", dur |-> NoParam, pc |-> "unborn", i |-> 0, total |-> 0]
NewThread(kind, dur) == [kind |-> kind, dur |-> dur, pc |-> "new", i |-> 0, total |-> 0]

\* threading.Thread.is_alive(): started and run() not yet returned
AlivePcs == {"started", "check", "update", "finish", "except"}

VARIABLES
  mainpc,          \* "boot" while __main__ loads config.json, then "serving"
  config,          \* config.json: absent, or the cookie text it holds
  task_status,     \* state.task_status
  progress,        \* state.progress
  stop_event,      \* whether the Event state.stop_event refers to is set
  active_threads,  \* state.active_threads, a list of thread ids
  cookies,         \* state.cookies
  thr,             \* the worker Thread objects
  nextTid,         \* the next Thread object to construct
  pc,              \* position of each request thread
  hop,             \* the handler a request thread is executing
  hthread,         \* start_task: the local "thread"
  hiter,           \* stop_tasks: the list being iterated once it is no
                   \* longer state.active_threads
  hlive,           \* stop_tasks: the iterated list is state.active_threads
  hidx,            \* stop_tasks: position of the list iterator
  hdict,           \* api_login: the local "cookie_dict"
  htext,           \* api_login: the local "cookies"
  resp,            \* the last response the server sent
  calls,           \* number of requests accepted so far
  phase,           \* observer: "accepted" from the return of an accepted
                   \* start to the next stop or login; "stopping" while a
                   \* stop called then, with no other request in flight,
                   \* runs, and "stopped" ("stop_failed") once it returned,
                   \* until the next login or accepted start
  cancelled,       \* observer: the workers that were alive when a stop
                   \* set the event and have not ended since
  loginPre         \* observer: the stored state as it was when the login
                   \* a request thread is executing was called

vars ==
  << mainpc, config, task_status, progress, stop_event, active_threads,
     cookies, thr, nextTid, pc, hop, hthread, hiter, hlive, hidx, hdict,
     htext, resp, calls, phase, cancelled, loginPre >>

shared == << task_status, progress, stop_event, active_threads, cookies >>
handlerLocals == << hthread, hiter, hlive, hidx, hdict, htext >>

ZeroProgress == [current |-> 0, total |-> 0]

\* the attributes of GlobalState the claims are about
Stored == << task_status, progress, stop_event, active_threads, cookies >>
NoSnapshot == << >>

\* GlobalState.__init__ runs reset(); config.json may or may not exist
Init ==
  /\ mainpc = "boot"
  /\ config \in {NoFile} \cup { FileWith(t) : t \in LoginTexts }
  /\ task_status = "nologon"
  /\ progress = ZeroProgress
  /\ stop_event = FALSE
  /\ active_threads = << >>
  /\ cookies = NoCookies
  /\ thr = [t \in Tids |-> NoThread]
  /\ nextTid = 1
  /\ pc = [h \in Handlers |-> "ready"]
  /\ hop = [h \in Handlers |-> "none"]
  /\ hthread = [h \in Handlers |-> 0]
  /\ hiter = [h \in Handlers |-> << >>]
  /\ hlive = [h \in Handlers |-> FALSE]
  /\ hidx = [h \in Handlers |-> 0]
  /\ hdict = [h \in Handlers |-> {}]
  /\ htext = [h \in Handlers |-> << >>]
  /\ resp = NoResp
  /\ calls = 0
  /\ phase = "none"
  /\ cancelled = {}
  /\ loginPre = [h \in Handlers |-> NoSnapshot]

(* ------------------------------ helpers ------------------------------- *)
Serving == mainpc = "serving"

\* the server hands a request to a free request thread; the threads are
\* interchangeable, so the first free one is taken
Free(h) ==
  /\ Serving
  /\ pc[h] = "ready"
  /\ calls < MaxCalls
  /\ \A g \in Handlers : g < h => pc[g] # "ready"

\* a handler returns: its locals die and the response is sent
Return(h, r) ==
  /\ pc' = [pc EXCEPT ![h] = "ready"]
  /\ hop' = [hop EXCEPT ![h] = "none"]
  /\ hthread' = [hthread EXCEPT ![h] = 0]
  /\ hiter' = [hiter EXCEPT ![h] = << >>]
  /\ hlive' = [hlive EXCEPT ![h] = FALSE]
  /\ hidx' = [hidx EXCEPT ![h] = 0]
  /\ hdict' = [hdict EXCEPT ![h] = {}]
  /\ htext' = [htext EXCEPT ![h] = << >>]
  /\ resp' = r
  /\ loginPre' = [loginPre EXCEPT ![h] = NoSnapshot]

Goto(h, where) == pc' = [pc EXCEPT ![h] = where]

(* ------------------------ __main__ config load ------------------------ *)
\* config.json is missing, holds an empty text, or its text does not parse
StartupNoLogin ==
  /\ mainpc = "boot"
  /\ \/ ~config.some
     \/ config.text = << >>
     \/ DictRaises(StartupItems(config.text))
  /\ mainpc' = "serving"
  /\ UNCHANGED << config, shared, thr, nextTid, pc, hop, handlerLocals, resp, calls, phase, cancelled, loginPre >>

\* the text parses and validate_cookies answers False
StartupRejected ==
  /\ mainpc = "boot"
  /\ config.some
  /\ config.text # << >>
  /\ ~DictRaises(StartupItems(config.text))
  /\ mainpc' = "serving"
  /\ UNCHANGED << config, shared, thr, nextTid, pc, hop, handlerLocals, resp, calls, phase, cancelled, loginPre >>

\* the text parses and validate_cookies answers True
StartupLogin ==
  /\ mainpc = "boot"
  /\ config.some
  /\ config.text # << >>
  /\ ~DictRaises(StartupItems(config.text))
  /\ mainpc' = "serving"
  /\ cookies' = SomeCookies(DictOf(StartupItems(config.text)))
  /\ task_status' = "idle"
  /\ UNCHANGED << config, progress, stop_event, active_threads, thr, nextTid,
                  pc, hop, handlerLocals, resp, calls, phase, cancelled, loginPre >>

(* --------------------------- GlobalState.reset ------------------------ *)
\* reset() is a sequence of attribute assignments; other threads run
\* between them
ResetStatus(h) ==
  /\ pc[h] = "reset_status"
  /\ task_status' = "nologon"
  /\ Goto(h, "reset_progress")
  /\ UNCHANGED << mainpc, config, progress, stop_event, active_threads, cookies,
                  thr, nextTid, hop, handlerLocals, resp, calls, phase, cancelled, loginPre >>

ResetProgress(h) ==
  /\ pc[h] = "reset_progress"
  /\ progress' = ZeroProgress
  /\ Goto(h, "reset_event")
  /\ UNCHANGED << mainpc, config, task_status, stop_event, active_threads,
                  cookies, thr, nextTid, hop, handlerLocals, resp, calls, phase, cancelled, loginPre >>

\* a fresh, unset Event replaces the old one
ResetEvent(h) ==
  /\ pc[h] = "reset_event"
  /\ stop_event' = FALSE
  /\ Goto(h, "reset_threads")
  /\ UNCHANGED << mainpc, config, task_status, progress, active_threads,
                  cookies, thr, nextTid, hop, handlerLocals, resp, calls, phase, cancelled, loginPre >>

\* a fresh list replaces the old one; an iterator over the old list keeps it
ResetThreads(h) ==
  /\ pc[h] = "reset_threads"
  /\ active_threads' = << >>
  /\ hiter' = [g \in Handlers |-> IF hlive[g] THEN active_threads ELSE hiter[g]]
  /\ hlive' = [g \in Handlers |-> FALSE]
  /\ Goto(h, "reset_cookies")
  /\ UNCHANGED << mainpc, config, task_status, progress, stop_event, cookies,
                  thr, nextTid, hop, hthread, hidx, hdict, htext, resp, calls, phase, cancelled, loginPre >>

\* the last assignment of reset() inside api_login
ResetCookiesLogin(h) ==
  /\ pc[h] = "reset_cookies"
  /\ hop[h] = "login"
  /\ cookies' = NoCookies
  /\ Goto(h, "login_validate")
  /\ UNCHANGED << mainpc, config, task_status, progress, stop_event,
                  active_threads, thr, nextTid, hop, handlerLocals, resp, calls, phase, cancelled, loginPre >>

\* the last assignment of reset() inside stop_tasks, which then returns
ResetCookiesStop(h) ==
  /\ pc[h] = "reset_cookies"
  /\ hop[h] = "stop"
  /\ cookies' = NoCookies
  /\ Return(h, Resp("stop", TRUE, NoError))
  /\ phase' = (IF phase = "stopping" THEN "stopped" ELSE phase)
  /\ UNCHANGED << mainpc, config, task_status, progress, stop_event,
                  active_threads, thr, nextTid, calls, cancelled >>

(* ------------------------------ api_login ----------------------------- *)
\* line 271: the handler begins with state.reset()
LoginCall(h) ==
  /\ Free(h)
  /\ calls' = calls + 1
  /\ hop' = [hop EXCEPT ![h] = "login"]
  /\ task_status' = "nologon"
  /\ Goto(h, "reset_progress")
  /\ phase' = "none"
  /\ loginPre' = [loginPre EXCEPT ![h] = Stored]
  /\ UNCHANGED << mainpc, config, progress, stop_event, active_threads, cookies,
                  thr, nextTid, handlerLocals, resp, cancelled >>

\* dict(...) raises on the request's cookie text
LoginParseErrorFrom(h, texts) ==
  /\ pc[h] = "login_validate"
  /\ \E text \in texts : DictRaises(LoginItems(text))
  /\ Return(h, Resp("login", FALSE, ErrException))
  /\ UNCHANGED << mainpc, config, shared, thr, nextTid, calls, phase, cancelled >>

LoginParseError(h) == LoginParseErrorFrom(h, LoginTexts)

\* validate_cookies answers False
LoginRejectedFrom(h, texts) ==
  /\ pc[h] = "login_validate"
  /\ \E text \in texts : ~DictRaises(LoginItems(text))
  /\ Return(h, Resp("login", FALSE, ErrCookieInvalid))
  /\ UNCHANGED << mainpc, config, shared, thr, nextTid, calls, phase, cancelled >>

LoginRejected(h) == LoginRejectedFrom(h, LoginTexts)

\* validate_cookies answers True
LoginValidatedFrom(h, texts) ==
  /\ pc[h] = "login_validate"
  /\ \E text \in texts :
       /\ ~DictRaises(LoginItems(text))
       /\ hdict' = [hdict EXCEPT ![h] = DictOf(LoginItems(text))]
       /\ htext' = [htext EXCEPT ![h] = text]
  /\ Goto(h, "login_store")
  /\ UNCHANGED << mainpc, config, shared, thr, nextTid, hop, hthread, hiter,
                  hlive, hidx, resp, calls, phase, cancelled, loginPre >>

LoginValidated(h) == LoginValidatedFrom(h, LoginTexts)

\* line 281
LoginStore(h) ==
  /\ pc[h] = "login_store"
  /\ cookies' = SomeCookies(hdict[h])
  /\ Goto(h, "login_save")
  /\ UNCHANGED << mainpc, config, task_status, progress, stop_event,
                  active_threads, thr, nextTid, hop, handlerLocals, resp, calls, phase, cancelled, loginPre >>

\* lines 282-283: config.json is written
LoginSave(h) ==
  /\ pc[h] = "login_save"
  /\ config' = FileWith(htext[h])
  /\ Goto(h, "login_idle")
  /\ UNCHANGED << mainpc, shared, thr, nextTid, hop, handlerLocals, resp, calls, phase, cancelled, loginPre >>

\* lines 282-283: open() raises (the file cannot be written)
LoginSaveFail(h) ==
  /\ pc[h] = "login_save"
  /\ Return(h, Resp("login", FALSE, ErrException))
  /\ UNCHANGED << mainpc, config, shared, thr, nextTid, calls, phase, cancelled >>

\* lines 286-291
LoginIdle(h) ==
  /\ pc[h] = "login_idle"
  /\ task_status' = "idle"
  /\ Return(h, Resp("login", TRUE, NoError))
  /\ UNCHANGED << mainpc, config, progress, stop_event, active_threads, cookies,
                  thr, nextTid, calls, phase, cancelled >>

(* ------------------------------ start_task ---------------------------- *)
\* a guard that refuses a start only while a task is running
StartGuardRunningOnly == task_status \in RunningStatuses

\* the test of line 346
StartGuard == task_status # "idle"

\* lines 346-347
StartReject(h) ==
  /\ Free(h)
  /\ calls' = calls + 1
  /\ StartGuard
  /\ Return(h, Resp("start", FALSE, ErrAlreadyRunning))
  /\ UNCHANGED << mainpc, config, shared, thr, nextTid, phase, cancelled >>

\* lines 349-352 raise (no json body, or a key is missing)
StartBadRequest(h) ==
  /\ Free(h)
  /\ calls' = calls + 1
  /\ ~StartGuard
  /\ Return(h, Resp("start", FALSE, ErrException))
  /\ UNCHANGED << mainpc, config, shared, thr, nextTid, phase, cancelled >>

\* lines 358-359
StartUnknown(h) ==
  /\ Free(h)
  /\ calls' = calls + 1
  /\ ~StartGuard
  /\ Return(h, Resp("start", FALSE, ErrUnknownType))
  /\ UNCHANGED << mainpc, config, shared, thr, nextTid, phase, cancelled >>

\* lines 354-357: a Thread object is constructed (mycrate is never read, so
\* a BrainBurstThread keeps no params)
StartCreate(h) ==
  /\ Free(h)
  /\ calls' = calls + 1
  /\ ~StartGuard
  /\ nextTid <= MaxThreads
  /\ \E kind \in RunningStatuses, dur \in JsonParams :
       thr' = [thr EXCEPT ![nextTid] =
                 NewThread(kind, IF kind = KindAFK THEN dur ELSE NoParam)]
  /\ hthread' = [hthread EXCEPT ![h] = nextTid]
  /\ nextTid' = nextTid + 1
  /\ hop' = [hop EXCEPT ![h] = "start"]
  /\ Goto(h, "start_append")
  /\ phase' = (IF phase \in {"stopping", "stopped"} THEN "none" ELSE phase)
  /\ UNCHANGED << mainpc, config, shared, hiter, hlive, hidx, hdict, htext, resp, cancelled, loginPre >>

\* line 361
StartAppend(h) ==
  /\ pc[h] = "start_append"
  /\ active_threads' = Append(active_threads, hthread[h])
  /\ Goto(h, "start_thread")
  /\ UNCHANGED << mainpc, config, task_status, progress, stop_event, cookies,
                  thr, nextTid, hop, handlerLocals, resp, calls, phase, cancelled, loginPre >>

\* lines 362-363
StartThread(h) ==
  /\ pc[h] = "start_thread"
  /\ thr' = [thr EXCEPT ![hthread[h]].pc = "started"]
  /\ Return(h, Resp("start", TRUE, NoError))
  /\ phase' = "accepted"
  /\ UNCHANGED << mainpc, config, shared, nextTid, calls, cancelled >>

(* ------------------------------ stop_tasks ---------------------------- *)
\* line 372
StopCall(h) ==
  /\ Free(h)
  /\ calls' = calls + 1
  /\ stop_event' = TRUE
  /\ hop' = [hop EXCEPT ![h] = "stop"]
  /\ Goto(h, "stop_iter")
  /\ phase' = (IF phase # "accepted" THEN phase
               ELSE IF \A g \in Handlers \ {h} : pc[g] = "ready"
               THEN "stopping" ELSE "none")
  /\ cancelled' = cancelled \cup { t \in Tids : thr[t].pc \in AlivePcs }
  /\ UNCHANGED << mainpc, config, task_status, progress, active_threads,
                  cookies, thr, nextTid, handlerLocals, resp, loginPre >>

\* line 373: the for loop takes an iterator over state.active_threads
StopIter(h) ==
  /\ pc[h] = "stop_iter"
  /\ hlive' = [hlive EXCEPT ![h] = TRUE]
  /\ hidx' = [hidx EXCEPT ![h] = 1]
  /\ Goto(h, "stop_join")
  /\ UNCHANGED << mainpc, config, shared, thr, nextTid, hop, hthread, hiter,
                  hdict, htext, resp, calls, phase, cancelled, loginPre >>

\* the list the iterator of request thread h walks
IterList(h) == IF hlive[h] THEN active_threads ELSE hiter[h]

\* line 374: the thread has ended, join returns
StopJoinDone(h) ==
  /\ pc[h] = "stop_join"
  /\ hidx[h] <= Len(IterList(h))
  /\ thr[IterList(h)[hidx[h]]].pc = "done"
  /\ hidx' = [hidx EXCEPT ![h] = hidx[h] + 1]
  /\ UNCHANGED << mainpc, config, shared, thr, nextTid, pc, hop, hthread, hiter,
                  hlive, hdict, htext, resp, calls, phase, cancelled, loginPre >>

\* line 374: the thread is still alive when the timeout of 5 s expires
StopJoinTimeout(h) ==
  /\ pc[h] = "stop_join"
  /\ hidx[h] <= Len(IterList(h))
  /\ thr[IterList(h)[hidx[h]]].pc \in AlivePcs
  /\ hidx' = [hidx EXCEPT ![h] = hidx[h] + 1]
  /\ UNCHANGED << mainpc, config, shared, thr, nextTid, pc, hop, hthread, hiter,
                  hlive, hdict, htext, resp, calls, phase, cancelled, loginPre >>

\* line 374: join() of a thread that was not started raises RuntimeError,
\* lines 377-378 turn it into the response
StopJoinRaise(h) ==
  /\ pc[h] = "stop_join"
  /\ hidx[h] <= Len(IterList(h))
  /\ thr[IterList(h)[hidx[h]]].pc = "new"
  /\ Return(h, Resp("stop", FALSE, ErrException))
  /\ phase' = (IF phase = "stopping" THEN "stop_failed" ELSE phase)
  /\ UNCHANGED << mainpc, config, shared, thr, nextTid, calls, cancelled >>

\* line 373: the iterator is exhausted; line 375 follows
StopIterEnd(h) ==
  /\ pc[h] = "stop_join"
  /\ hidx[h] > Len(IterList(h))
  /\ hlive' = [hlive EXCEPT ![h] = FALSE]
  /\ hiter' = [hiter EXCEPT ![h] = << >>]
  /\ hidx' = [hidx EXCEPT ![h] = 0]
  /\ Goto(h, "reset_status")
  /\ UNCHANGED << mainpc, config, shared, thr, nextTid, hop, hthread, hdict,
                  htext, resp, calls, calls, phase, cancelled, loginPre >>

(* ------------------------------- workers ------------------------------ *)
\* BrainBurstThread.run, line 421; the loop variable starts at 1
RunBB(t) ==
  /\ thr[t].pc = "started"
  /\ thr[t].kind = KindBB
  /\ task_status' = KindBB
  /\ thr' = [thr EXCEPT ![t].pc = "check", ![t].i = 1, ![t].total = BBSteps]
  /\ UNCHANGED << mainpc, config, progress, stop_event, active_threads, cookies,
                  nextTid, pc, hop, handlerLocals, resp, calls, phase, cancelled, loginPre >>

\* AwayFromKeyboardThread.run, lines 446-454: total is resolved once
RunAFK(t) ==
  /\ thr[t].pc = "started"
  /\ thr[t].kind = KindAFK
  /\ TotalChoices(thr[t].dur) # {}
  /\ task_status' = KindAFK
  /\ \E d \in TotalChoices(thr[t].dur) :
       thr' = [thr EXCEPT ![t].pc = "check", ![t].i = 0, ![t].total = d,
                         ![t].dur = NoParam]
  /\ UNCHANGED << mainpc, config, progress, stop_event, active_threads, cookies,
                  nextTid, pc, hop, handlerLocals, resp, calls, phase, cancelled, loginPre >>

\* AwayFromKeyboardThread.run, lines 446-454: resolving total or range(total)
\* raises
RunAFKRaise(t) ==
  /\ thr[t].pc = "started"
  /\ thr[t].kind = KindAFK
  /\ TotalChoices(thr[t].dur) = {}
  /\ task_status' = KindAFK
  /\ thr' = [thr EXCEPT ![t].pc = "except", ![t].dur = NoParam]
  /\ UNCHANGED << mainpc, config, progress, stop_event, active_threads, cookies,
                  nextTid, pc, hop, handlerLocals, resp, calls, phase, cancelled, loginPre >>

\* the for loop has values left: range(1, 101) and range(total)
LoopHasNext(w) ==
  IF w.kind = KindBB THEN w.i <= w.total ELSE w.i < w.total

\* lines 424-426 and 454-456: the loop ends, or the event is seen set
WorkerBreak(t) ==
  /\ thr[t].pc = "check"
  /\ ~LoopHasNext(thr[t]) \/ stop_event
  /\ thr' = [thr EXCEPT ![t].pc = "finish"]
  /\ UNCHANGED << mainpc, config, shared, nextTid, pc, hop, handlerLocals, resp, calls, phase, cancelled, loginPre >>

\* lines 425 and 455: the event is seen unset
WorkerCheck(t) ==
  /\ thr[t].pc = "check"
  /\ LoopHasNext(thr[t])
  /\ ~stop_event
  /\ thr' = [thr EXCEPT ![t].pc = "update"]
  /\ UNCHANGED << mainpc, config, shared, nextTid, pc, hop, handlerLocals, resp, calls, phase, cancelled, loginPre >>

\* lines 427-428 and 457-458: progress is replaced, then the thread sleeps
WorkerUpdate(t) ==
  /\ thr[t].pc = "update"
  /\ progress' = [current |-> thr[t].i, total |-> thr[t].total]
  /\ thr' = [thr EXCEPT ![t].pc = "check", ![t].i = thr[t].i + 1]
  /\ UNCHANGED << mainpc, config, task_status, stop_event, active_threads,
                  cookies, nextTid, pc, hop, handlerLocals, resp, calls, phase, cancelled, loginPre >>

\* lines 429 and 459; run() returns
WorkerFinish(t) ==
  /\ thr[t].pc = "finish"
  /\ task_status' = "completed"
  /\ thr' = [thr EXCEPT ![t].pc = "done", ![t].i = 0, ![t].total = 0]
  /\ cancelled' = cancelled \ {t}
  /\ UNCHANGED << mainpc, config, progress, stop_event, active_threads, cookies,
                  nextTid, pc, hop, handlerLocals, resp, calls, phase, loginPre >>

\* lines 460-462; run() returns
WorkerExcept(t) ==
  /\ thr[t].pc = "except"
  /\ task_status' = "error"
  /\ thr' = [thr EXCEPT ![t].pc = "done", ![t].i = 0, ![t].total = 0]
  /\ cancelled' = cancelled \ {t}
  /\ UNCHANGED << mainpc, config, progress, stop_event, active_threads, cookies,
                  nextTid, pc, hop, handlerLocals, resp, calls, phase, loginPre >>

(* --------------------------- specification ---------------------------- *)
ResetStep(h) ==
  \/ ResetStatus(h)
  \/ ResetProgress(h)
  \/ ResetEvent(h)
  \/ ResetThreads(h)

LoginStep(h) ==
  \/ LoginCall(h)
  \/ ResetCookiesLogin(h)
  \/ LoginParseError(h)
  \/ LoginRejected(h)
  \/ LoginValidated(h)
  \/ LoginStore(h)
  \/ LoginSave(h)
  \/ LoginSaveFail(h)
  \/ LoginIdle(h)

StartStep(h) ==
  \/ StartReject(h)
  \/ StartBadRequest(h)
  \/ StartUnknown(h)
  \/ StartCreate(h)
  \/ StartAppend(h)
  \/ StartThread(h)

StopStep(h) ==
  \/ StopCall(h)
  \/ StopIter(h)
  \/ StopJoinDone(h)
  \/ StopJoinTimeout(h)
  \/ StopJoinRaise(h)
  \/ StopIterEnd(h)
  \/ ResetCookiesStop(h)

WorkerStep(t) ==
  \/ RunBB(t)
  \/ RunAFK(t)
  \/ RunAFKRaise(t)
  \/ WorkerBreak(t)
  \/ WorkerCheck(t)
  \/ WorkerUpdate(t)
  \/ WorkerFinish(t)
  \/ WorkerExcept(t)

Next ==
  \/ StartupNoLogin
  \/ StartupRejected
  \/ StartupLogin
  \/ \E h \in Handlers : ResetStep(h)
  \/ \E h \in Handlers : LoginStep(h)
  \/ \E h \in Handlers : StartStep(h)
  \/ \E h \in Handlers : StopStep(h)
  \/ \E t \in Tids : WorkerStep(t)

Spec == Init /\ [][Next]_vars

\* the runs in which the session is opened by the automatic login of
\* __main__ and the requests are start and stop only
NextStartStop ==
  \/ StartupNoLogin
  \/ StartupRejected
  \/ StartupLogin
  \/ \E h \in Handlers : ResetStep(h)
  \/ \E h \in Handlers : StartStep(h)
  \/ \E h \in Handlers : StopStep(h)
  \/ \E t \in Tids : WorkerStep(t)

SpecStartStop == Init /\ [][NextStartStop]_vars

\* the process ends and is started again: GlobalState is constructed anew,
\* the request and worker threads are gone, config.json is what it was
Restart ==
  /\ mainpc = "serving"
  /\ mainpc' = "boot"
  /\ config' = config
  /\ task_status' = "nologon"
  /\ progress' = ZeroProgress
  /\ stop_event' = FALSE
  /\ active_threads' = << >>
  /\ cookies' = NoCookies
  /\ thr' = [t \in Tids |-> NoThread]
  /\ nextTid' = 1
  /\ pc' = [h \in Handlers |-> "ready"]
  /\ hop' = [h \in Handlers |-> "none"]
  /\ hthread' = [h \in Handlers |-> 0]
  /\ hiter' = [h \in Handlers |-> << >>]
  /\ hlive' = [h \in Handlers |-> FALSE]
  /\ hidx' = [h \in Handlers |-> 0]
  /\ hdict' = [h \in Handlers |-> {}]
  /\ htext' = [h \in Handlers |-> << >>]
  /\ resp' = NoResp
  /\ calls' = 0
  /\ phase' = "none"
  /\ cancelled' = {}
  /\ loginPre' = [h \in Handlers |-> NoSnapshot]

\* the login requests of the restart runs, served one at a time
LoginStepAll(h) ==
  \/ LoginCall(h)
  \/ ResetProgress(h)
  \/ ResetEvent(h)
  \/ ResetThreads(h)
  \/ ResetCookiesLogin(h)
  \/ LoginParseErrorFrom(h, AllTexts)
  \/ LoginRejectedFrom(h, AllTexts)
  \/ LoginValidatedFrom(h, AllTexts)
  \/ LoginStore(h)
  \/ LoginSave(h)
  \/ LoginSaveFail(h)
  \/ LoginIdle(h)

\* the runs that start without config.json, take login requests only and
\* restart the process: every config.json was written by a login
InitRestart == Init /\ config = NoFile

NextRestart ==
  \/ StartupNoLogin
  \/ StartupRejected
  \/ StartupLogin
  \/ LoginStepAll(1)
  \/ Restart

SpecRestart == InitRestart /\ [][NextRestart]_vars

(* ------------------------------- claims ------------------------------- *)
AliveWorkers == { t \in Tids : thr[t].pc \in AlivePcs }

\* request thread h takes a start request in this step (a login sets hop to
\* "login" and a stop sets it to "stop"; only a start may return at once)
StartCalled(h) ==
  /\ Free(h)
  /\ calls' = calls + 1
  /\ hop'[h] \in {"start", "none"}

\* the start request taken in this step is answered in this step
StartReturned(h) == StartCalled(h) /\ pc'[h] = "ready"

OthersReady(h) == \A g \in Handlers \ {h} : pc[g] = "ready"

\* C1: single-flight: with start and stop requests only, after the session
\* was opened, at most one worker thread is alive at any time.
C1_SingleFlight == Cardinality(AliveWorkers) <= 1

\* the start request taken in this step is not refused for its form (a
\* body that cannot be read, or an unknown task type)
WellFormedStart(h) ==
  ~(StartReturned(h) /\ resp'.error \in {ErrException, ErrUnknownType})

\* C2: once a start was accepted, a later well-formed start with no stop or
\* login in between (and no other request in flight) is answered with the
\* already-running error and constructs no worker.
C2_SecondStartRejected ==
  [][\A h \in Handlers :
       (phase = "accepted" /\ OthersReady(h) /\ StartCalled(h)
          /\ WellFormedStart(h))
         => /\ StartReturned(h)
            /\ resp' = Resp("start", FALSE, ErrAlreadyRunning)
            /\ UNCHANGED << thr, nextTid >>]_vars

\* C3: a start request that finds task_status other than "idle" is answered
\* with the already-running error, and every start request that is refused
\* (also for an unknown task type) constructs and starts no worker and leaves
\* task_status, progress, stop_event, active_threads and cookies as they were.
C3_RejectedStartFrame ==
  [][\A h \in Handlers :
       StartCalled(h)
         => /\ task_status # "idle"
                 => /\ StartReturned(h)
                    /\ resp' = Resp("start", FALSE, ErrAlreadyRunning)
            /\ StartReturned(h)
                 => /\ ~resp'.success
                    /\ UNCHANGED << Stored, thr, nextTid >>]_vars

\* C3 witness: a start was answered with the already-running error while a
\* worker was running and had made progress.
C3_Witness ==
  /\ resp = Resp("start", FALSE, ErrAlreadyRunning)
  /\ task_status \in RunningStatuses
  /\ progress.current > 0
  /\ active_threads # << >>

\* request thread h answers a login request with success = false in this step
LoginFailed(h) ==
  /\ hop[h] = "login"
  /\ pc'[h] = "ready"
  /\ ~resp'.success

\* C4: a login that fails leaves the stored state as it was when the login
\* was called.
C4_FailedLoginFrame ==
  [][\A h \in Handlers : LoginFailed(h) => Stored' = loginPre[h]]_vars

\* C5: a stop called after an accepted start (no other request in flight)
\* returns success, and from its return until the next login or accepted
\* start task_status is "idle" or "nologon", progress is (0,0) and
\* active_threads is empty.
C5_StopLeavesReset ==
  /\ phase # "stop_failed"
  /\ phase = "stopped"
       => /\ task_status \in {"idle", "nologon"}
          /\ progress = ZeroProgress
          /\ active_threads = << >>

\* C6: a worker that was alive when a stop set the event leaves its loop at
\* its next check of the event, and every stop is answered with success.
C6_CancellationEffective ==
  [][/\ \A t \in cancelled :
          (thr[t].pc = "check" /\ thr'[t].pc # "check") => thr'[t].pc = "finish"
     /\ \A h \in Handlers :
          (hop[h] = "stop" /\ pc'[h] = "ready") => resp'.success]_vars

\* a reset() assigns progress in this step
ProgressReset == \E h \in Handlers : pc[h] = "reset_progress" /\ pc'[h] # pc[h]

\* C7: while a task is running (no terminal status, no reset) the values of
\* progress.current never decrease, and current <= total whenever total > 0.
C7_ProgressMonotone ==
  [][/\ progress'.total > 0 => progress'.current <= progress'.total
     /\ (task_status \in RunningStatuses /\ task_status' \in RunningStatuses
           /\ ~ProgressReset)
          => progress'.current >= progress.current]_vars

\* the step is taken by a request thread executing login or stop
LoginOrStopStep ==
  \E h \in Handlers :
    /\ pc'[h] # pc[h]
    /\ hop[h] \in {"login", "stop"} \/ hop'[h] = "login"

\* C8: a terminal status changes only in a step of login or stop.
C8_TerminalStable ==
  [][(task_status \in TerminalStatuses /\ task_status' # task_status)
       => LoginOrStopStep]_vars

\* C9: a running status implies a registered worker.
C9_RunningHasWorker ==
  task_status \in RunningStatuses => active_threads # << >>

\* C10: a start request that finds task_status "nologon" is refused with an
\* error other than the already-running error, constructs no worker and
\* leaves task_status "nologon".
C10_StartNotAuthenticated ==
  [][\A h \in Handlers :
       (StartCalled(h) /\ task_status = "nologon")
         => /\ StartReturned(h)
            /\ ~resp'.success
            /\ resp'.error # ErrAlreadyRunning
            /\ task_status' = "nologon"
            /\ UNCHANGED << thr, nextTid >>]_vars

\* the threads that were constructed
Constructed == { t \in Tids : thr[t].pc # "unborn" }

\* worker t returns from run() in this step after its loop ran to its end,
\* t being the only worker of the run and no stop or login having been
\* called since its start was accepted
CompletesNormally(t) ==
  /\ thr[t].pc = "finish"
  /\ thr'[t].pc = "done"
  /\ ~LoopHasNext(thr[t])
  /\ thr[t].total > 0
  /\ t \notin cancelled
  /\ Constructed = {t}
  /\ phase = "accepted"
  /\ \A h \in Handlers : pc[h] = "ready"

\* C11: a worker that runs to normal completion without cancellation sets
\* "completed" with progress.current = progress.total = its total.
C11_CompletionProgress ==
  [][\A t \in Tids :
       CompletesNormally(t)
         => /\ task_status' = "completed"
            /\ progress'.total = thr[t].total
            /\ progress'.current = progress'.total]_vars

\* C12: when __main__ reads a config.json that an accepted login wrote, the
\* automatic login is possible (the text is not skipped and parses), and if
\* validate_cookies answers True again it ends with the cookies that login
\* stored and task_status "idle".
C12_LoginRestartRoundTrip ==
  [][(mainpc = "boot" /\ mainpc' = "serving" /\ config.some)
       => /\ ENABLED StartupLogin
          /\ task_status' = "idle"
               => cookies' = SomeCookies(DictOf(LoginItems(config.text)))]_vars

\* C13: whenever no request is in flight, the one worker constructed so far
\* has completed and nothing was stopped since, active_threads counts no
\* worker that has returned from run(): its members are alive.
C13_ActiveThreadsRunning ==
  (/\ \A h \in Handlers : pc[h] = "ready"
   /\ Cardinality(Constructed) = 1
   /\ phase = "accepted"
   /\ task_status = "completed")
    => /\ Len(active_threads) <= 1
       /\ \A n \in 1..Len(active_threads) : thr[active_threads[n]].pc \in AlivePcs

\* C14: in every state with no request in flight, the states after a login
\* that raised midway included, state.cookies is set only if task_status is
\* not "nologon".
C14_CookiesImplyAuthenticated ==
  ((\A h \in Handlers : pc[h] = "ready") /\ cookies.some)
    => task_status # "nologon"

\* worker t executes the test of its first loop iteration in this step
FirstIteration(t) ==
  /\ thr[t].pc = "check"
  /\ thr'[t].pc # "check"
  /\ thr[t].i = (IF thr[t].kind = KindBB THEN 1 ELSE 0)

\* C15: when the worker of an accepted start executes its first loop
\* iteration, with no login or stop called since the acceptance and no
\* request in flight, progress is (0,0) and the stop event is clear, whatever
\* logins, tasks and stops came before the acceptance.
C15_CleanStart ==
  [][\A t \in Tids :
       (/\ FirstIteration(t)
        /\ phase = "accepted"
        /\ \A h \in Handlers : pc[h] = "ready")
         => (progress = ZeroProgress /\ ~stop_event)]_vars

\* request thread h answers a stop request in this step
StopReturns(h) == hop[h] = "stop" /\ pc[h] # "ready" /\ pc'[h] = "ready"

\* C16: when a stop request is answered with a failure (a join raised), the
\* state is reset all the same: progress is (0,0), active_threads is empty
\* and task_status is "idle" or "nologon".
C16_StopAlwaysResets ==
  [][\A h \in Handlers :
       (StopReturns(h) /\ resp'.op = "stop" /\ ~resp'.success)
         => /\ progress' = ZeroProgress
            /\ active_threads' = << >>
            /\ task_status' \in {"idle", "nologon"}]_vars

\* request thread h takes a start request in this step and passes the test
\* of line 346: the start is going to be accepted
StartAccepted(h) == StartCalled(h) /\ pc'[h] = "start_append"

\* C17: a start that is accepted after a login (or stop) was called since the
\* last acceptance, with no other request in flight, finds no earlier worker
\* alive: a login issued while a worker is alive never lets a second worker
\* run beside it.
C17_SingleFlightAcrossLogin ==
  [][\A h \in Handlers :
       (StartAccepted(h) /\ OthersReady(h) /\ phase # "accepted")
         => AliveWorkers = {}]_vars

\* the durations a start request asks for: n itself, or any d of [min, max]
Requested(dur) == IF dur.tag = "int" THEN {dur.a} ELSE dur.a..dur.b

\* C18: when an away_from_keyboard worker begins run(), it resolves one
\* duration among those the request asked for (min <= d <= max for a range,
\* n for a fixed duration) and enters its loop with total = d instead of
\* failing.
C18_DurationResolved ==
  [][\A t \in Tids :
       (thr[t].kind = KindAFK /\ thr[t].pc = "started" /\ thr'[t].pc # "started")
         => /\ thr'[t].pc = "check"
            /\ thr'[t].total \in Requested(thr[t].dur)]_vars

\* the step is the last one of a successful login request, or the automatic
\* login of __main__
LoginSucceeds ==
  \/ mainpc = "boot"
  \/ \E h \in Handlers :
       /\ hop[h] = "login"
       /\ pc[h] # "ready"
       /\ pc'[h] = "ready"
       /\ resp' = Resp("login", TRUE, NoError)

\* C19: task_status becomes "idle" only in the last step of a successful
\* login or of the automatic login, and every stop request leaves, when it is
\* answered, no credentials and task_status "nologon".
C19_StopLogsOut ==
  [][/\ (task_status # "idle" /\ task_status' = "idle") => LoginSucceeds
     /\ \A h \in Handlers :
          StopReturns(h) => (cookies' = NoCookies /\ task_status' = "nologon")]_vars

====
